---------------------------- MODULE Spec2Model ----------------------------
(***************************************************************************)
(* BlockDrive client: the wallet session of App.js (connection / network   *)
(* reconciliation) and the two feature components, FileUpload.js (pin a    *)
(* file, register it) and Display.js (grant / revoke access), modelled as  *)
(* a state machine.                                                        *)
(*                                                                         *)
(* The React state of a component is a set of variables; every async       *)
(* function is a task that is suspended at its awaited request and resumed *)
(* when the request is answered.  The wallet extension, the pinning        *)
(* service and the chain are the environment: the wallet owns the current  *)
(* chain and the exposed account, answers requests and emits chainChanged  *)
(* / accountsChanged notifications; the chain mines submitted              *)
(* transactions.                                                           *)
(***************************************************************************)
EXTENDS Integers, Sequences, FiniteSets, Bags, TLC

(***************************************************************************)
(* Bounds of the model.                                                    *)
(***************************************************************************)
MaxTasks == 2

\* Transactions submitted to the registry.
MaxTxs == 2

\* Progress intervals of handleSubmit that are running at once.
MaxIntervals == 2

\* Suspended async functions of Display.js.
MaxShares == 2

(***************************************************************************)
(* Configuration of App.js.                                                *)
(***************************************************************************)
HARDHAT_CHAIN_ID == "0x539"

HardhatChain == 1337

Chains == {1337, 1}

Accounts == {"0xA", "0xB"}

NoAccount == ""

\* An absent object is the empty sequence, an object a sequence of one record.
NULL == <<>>

\* The wallet reports its chain as a hexadecimal string (eth_chainId).
ChainIdHex(c) == IF c = 1337 THEN "0x539" ELSE "0x1"

\* Provider error codes of the wallet.
UserRejectedCode == 4001

ProviderBusyCode == -32002

UnknownChainCode == 4902

\* Any other provider error.
OtherErrorCodes == {-32603}

\* Advisory messages.
MsgNotInstalled == "MetaMask is not installed. Please install MetaMask extension."

MsgRejected == "Connection rejected by user"

MsgBusy == "MetaMask is busy. Please check MetaMask and try again."

MsgNoAccounts == "No accounts returned from MetaMask"

MsgConnectFailed == "Failed to connect wallet"

MsgSwitchHardhat == "Failed to switch to Hardhat network"

MsgSwitchManual == "Failed to switch network. Please switch manually in MetaMask."

MsgInitFailed == "Failed to initialize blockchain connection"

MsgCheckFailed == "Failed to initialize MetaMask connection"

VARIABLES
    ethereum,         \* window.ethereum is present
    wChain,           \* wallet: current chain
    wKnown,           \* wallet: the Hardhat chain is known to it
    wAcct,            \* wallet: first exposed account, NoAccount if none
    listening,        \* chainChanged / accountsChanged listeners are registered
    account,          \* App state
    contract,
    provider,
    isConnecting,
    wrongNetwork,
    connectionError,
    isLoading,
    tasks,            \* suspended async functions of App.js
    note,             \* history: the last accountsChanged notification handled
    upload,           \* FileUpload state
    uploads,          \* suspended handleSubmit invocations
    display,          \* Display state
    shares,           \* suspended async functions of Display.js
    timers,           \* pending timer callbacks of the two components
    pinned,           \* pinning service: the content identifiers pinned
    txs,              \* chain: the transactions sent to the registry
    value,            \* registry: the locators of each owner
    accessList,       \* registry: the grant records of each owner
    reported,         \* history: the transactions reported as completed
    unregistered,     \* history: the locators whose contract.add was refused
    requested         \* history: the target of the latest contract.display call

walletVars == <<ethereum, wChain, wKnown, wAcct>>

sessionVars == <<account, contract, provider, wrongNetwork>>

appVars == <<ethereum, wChain, wKnown, wAcct, listening, account, contract,
             provider, isConnecting, wrongNetwork, connectionError, isLoading,
             tasks, note>>

chainVars == <<txs, value, accessList>>

\* What is recorded about the components, read by no step of theirs.
history == <<reported, unregistered, requested>>

clientVars == <<upload, uploads, display, shares, timers, pinned, chainVars,
                history>>

vars == <<appVars, clientVars>>

(***************************************************************************)
(* Tasks.  kind: the async function; pc: the awaited request; acct: the    *)
(* account the function holds (accounts[0], userAccount, or the account of *)
(* the closure of switchNetwork); reqs: the wallet_* requests issued by    *)
(* the ensureCorrectNetwork invocation of the function.                    *)
(* Two history fields record what happened around the task and change      *)
(* nothing it does.  hist: "clean" while nothing else has run since the    *)
(* task started, "superseded" once an accountsChanged notification or a    *)
(* disconnectWallet() has occurred since, "dirty" after any other step of  *)
(* another function.  redo: the task handles a notification that was       *)
(* delivered again after its first handling had settled.                   *)
(***************************************************************************)
Task(k, p, a, r) ==
    [kind |-> k, pc |-> p, acct |-> a, reqs |-> r, hist |-> "clean", redo |-> FALSE]

\* The suspended tasks are a bag: any of them may be resumed next.
Remove(b, t) == b (-) SetToBag({t})

Add(b, t) == b (+) SetToBag({t})

Worse(h, g) ==
    IF h = "superseded" \/ g = "superseded" THEN "superseded"
    ELSE IF h = "dirty" \/ g = "dirty" THEN "dirty"
    ELSE "clean"

MarkTask(t, h) == [t EXCEPT !.hist = Worse(t.hist, h)]

Mark(b, h) ==
    LET ts == BagToSet(b)
        us == {MarkTask(t, h) : t \in ts}
        Count(u) == LET from == {t \in ts : MarkTask(t, h) = u}
                        Sum[S \in SUBSET from] ==
                            IF S = {} THEN 0
                            ELSE LET x == CHOOSE y \in S : TRUE
                                 IN  b[x] + Sum[S \ {x}]
                    IN  Sum[from]
    IN  [u \in us |-> Count(u)]

NoNote == [acct |-> "none", inConnect |-> FALSE, settled |-> FALSE]

\* Another function has run since the notification was handled.
NoteTouch == [note EXCEPT !.settled = FALSE]

\* Task t has settled with the wallet having answered all its requests.
NoteSettle(t) ==
    IF t.kind = "accounts" /\ t.hist = "clean" /\ t.acct = note.acct
    THEN [note EXCEPT !.settled = TRUE]
    ELSE NoteTouch

InConnect == \E t \in BagToSet(tasks) : t.kind = "connect"

Quiescent == tasks = EmptyBag

NewContract(signer) == <<[signer |-> signer]>>

NewProvider == <<"BrowserProvider">>

(***************************************************************************)
(* The decisions of the code, one definition each.                         *)
(***************************************************************************)
\* Mutant of ConnectGuard: connectWallet without its isConnecting guard.
ConnectGuardOff == FALSE

\* connectWallet: "if (isConnecting) return".
ConnectGuard == isConnecting

\* initializeProvider: "network.chainId !== 1337n" negated.
OnExpectedNetwork(chainId) == chainId = HardhatChain

\* ensureCorrectNetwork: "chainId !== HARDHAT_CHAIN_ID".
NeedsSwitch(chainIdHex) == chainIdHex # HARDHAT_CHAIN_ID

\* ensureCorrectNetwork: "switchError.code === 4902".
IsUnknownChain(code) == code = UnknownChainCode

\* connectWallet's catch with the fallback message for every code.
ConnectErrorMessageGeneric(code) == MsgConnectFailed

\* connectWallet's catch: the advisory for an error code.
ConnectErrorMessage(code) ==
    IF code = UserRejectedCode THEN MsgRejected
    ELSE IF code = ProviderBusyCode THEN MsgBusy
    ELSE MsgConnectFailed

(***************************************************************************)
(* The state of the feature components as they mount (their useState       *)
(* initial values), and the chain with nothing sent to the registry.       *)
(* A message of Display that names an address is a sequence of its parts;  *)
(* no message is the empty sequence.                                       *)
(***************************************************************************)
NoMessage == <<>>

FileUploadMounted ==
    [file |-> NULL, fileName |-> "", uploading |-> FALSE, uploadProgress |-> 0,
     error |-> "", success |-> ""]

DisplayMounted ==
    [data |-> <<>>, loading |-> FALSE, viewAddress |-> "", error |-> "",
     currentViewingAddress |-> "", showShareModal |-> FALSE,
     shareAddress |-> "", shareLoading |-> FALSE, sharedAccess |-> <<>>,
     successMessage |-> NoMessage]

NoTimers == [progress |-> 0, reset |-> 0, clear |-> 0]

ComponentsMounted ==
    /\ upload = FileUploadMounted
    /\ uploads = EmptyBag
    /\ display = DisplayMounted
    /\ timers = NoTimers
    /\ reported = {}
    /\ unregistered = {}
    /\ requested = ""

RegistryDeployed ==
    /\ pinned = {}
    /\ txs = <<>>
    /\ value = [a \in Accounts |-> <<>>]
    /\ accessList = [a \in Accounts |-> <<>>]

(***************************************************************************)
(* Initial state: App has mounted and its mount effect has run             *)
(* checkMetaMaskConnection up to its first await.                          *)
(***************************************************************************)
CheckTask == Task("check", "eth_accounts", NoAccount, <<>>)

Init ==
    /\ ethereum \in BOOLEAN
    /\ IF ethereum
       THEN /\ wChain \in Chains
            /\ wKnown \in BOOLEAN
            /\ wChain = HardhatChain => wKnown
            /\ wAcct \in Accounts \cup {NoAccount}
            /\ tasks = SetToBag({CheckTask})
            /\ isLoading = TRUE
       ELSE /\ wChain = 1
            /\ wKnown = FALSE
            /\ wAcct = NoAccount
            /\ tasks = EmptyBag
            /\ isLoading = FALSE
    /\ listening = FALSE
    /\ account = NoAccount
    /\ contract = NULL
    /\ provider = NULL
    /\ isConnecting = FALSE
    /\ wrongNetwork = FALSE
    /\ connectionError = ""
    /\ note = NoNote
    /\ ComponentsMounted
    /\ shares = EmptyBag
    /\ RegistryDeployed

(***************************************************************************)
(* The tail of an async function once its last awaited call has returned:  *)
(* checkMetaMaskConnection registers the listeners and its finally clears  *)
(* isLoading; connectWallet's finally clears isConnecting.                 *)
(***************************************************************************)
Settle(t) ==
    /\ tasks' = Mark(Remove(tasks, t), "dirty")
    /\ listening' = IF t.kind = "check" THEN TRUE ELSE listening
    /\ isLoading' = IF t.kind = "check" THEN FALSE ELSE isLoading
    /\ isConnecting' = IF t.kind = "connect" THEN FALSE ELSE isConnecting

\* The function goes on to its next awaited request.
Suspend(t, p, a, r) ==
    /\ tasks' = Add(Mark(Remove(tasks, t), "dirty"),
                    [t EXCEPT !.pc = p, !.acct = a, !.reqs = r])
    /\ UNCHANGED <<listening, isLoading, isConnecting>>

(***************************************************************************)
(* checkMetaMaskConnection                                                 *)
(***************************************************************************)
EthAccountsOk(t) ==
    /\ t.pc = "eth_accounts"
    /\ IF wAcct # NoAccount
       THEN Suspend(t, "getNetwork", wAcct, <<>>)
       ELSE Settle(t)
    /\ note' = NoteTouch
    /\ UNCHANGED <<walletVars, sessionVars, connectionError>>
    /\ UNCHANGED clientVars

\* The request rejects: the catch reports, the finally clears isLoading,
\* and the listeners are not registered.
EthAccountsFail(t) ==
    /\ t.pc = "eth_accounts"
    /\ connectionError' = MsgCheckFailed
    /\ isLoading' = FALSE
    /\ tasks' = Mark(Remove(tasks, t), "dirty")
    /\ note' = NoteTouch
    /\ UNCHANGED <<walletVars, sessionVars, listening, isConnecting>>
    /\ UNCHANGED clientVars

(***************************************************************************)
(* initializeProvider(userAccount)                                         *)
(***************************************************************************)
\* Mutant of InitializeOnNetwork: the wrong-network branch does not set the
\* account.
InitializeOnNetworkKeepsAccount(t, chainId) ==
    IF chainId # HardhatChain
    THEN /\ wrongNetwork' = TRUE
         /\ UNCHANGED <<account, contract, provider>>
         /\ Settle(t)
         /\ note' = NoteSettle(t)
    ELSE /\ wrongNetwork' = FALSE
         /\ account' = t.acct
         /\ provider' = NewProvider
         /\ UNCHANGED contract
         /\ Suspend(t, "getSigner", t.acct, t.reqs)
         /\ note' = NoteTouch

\* Mutant of InitializeOnNetwork: the old contract is dropped while the new
\* one is being built.
InitializeOnNetworkDropsContract(t, chainId) ==
    IF chainId # HardhatChain
    THEN /\ wrongNetwork' = TRUE
         /\ account' = t.acct
         /\ UNCHANGED <<contract, provider>>
         /\ Settle(t)
         /\ note' = NoteSettle(t)
    ELSE /\ wrongNetwork' = FALSE
         /\ account' = t.acct
         /\ provider' = NewProvider
         /\ contract' = NULL
         /\ Suspend(t, "getSigner", t.acct, t.reqs)
         /\ note' = NoteTouch

\* The writes of initializeProvider once getNetwork() has answered chainId.
InitializeOnNetwork(t, chainId) ==
    IF ~OnExpectedNetwork(chainId)
    THEN /\ wrongNetwork' = TRUE
         /\ account' = t.acct
         /\ UNCHANGED <<contract, provider>>
         /\ Settle(t)
         /\ note' = NoteSettle(t)
    ELSE /\ wrongNetwork' = FALSE
         /\ account' = t.acct
         /\ provider' = NewProvider
         /\ UNCHANGED contract
         /\ Suspend(t, "getSigner", t.acct, t.reqs)
         /\ note' = NoteTouch

GetNetworkOk(t) ==
    /\ t.pc = "getNetwork"
    /\ InitializeOnNetwork(t, wChain)
    /\ UNCHANGED <<walletVars, connectionError>>
    /\ UNCHANGED clientVars

\* The writes of initializeProvider once getSigner() has answered.
InitializeOnSigner(t, signer) ==
    /\ contract' = NewContract(signer)
    /\ Settle(t)
    /\ note' = NoteSettle(t)
    /\ UNCHANGED <<account, provider, wrongNetwork>>

\* getSigner() takes no address: the signer is the wallet's first account.
GetSignerOk(t) ==
    /\ t.pc = "getSigner"
    /\ wAcct # NoAccount
    /\ InitializeOnSigner(t, wAcct)
    /\ UNCHANGED <<walletVars, connectionError>>
    /\ UNCHANGED clientVars

\* getNetwork() or getSigner() rejects: the catch of initializeProvider.
InitializeFail(t) ==
    /\ t.pc \in {"getNetwork", "getSigner"}
    /\ connectionError' = MsgInitFailed
    /\ Settle(t)
    /\ note' = NoteTouch
    /\ UNCHANGED <<walletVars, sessionVars>>
    /\ UNCHANGED clientVars

\* A reload that keeps the call context.
ReloadKeepsContract ==
    /\ account' = NoAccount
    /\ isConnecting' = FALSE
    /\ wrongNetwork' = FALSE
    /\ connectionError' = ""
    /\ isLoading' = TRUE
    /\ listening' = FALSE
    /\ tasks' = SetToBag({CheckTask})
    /\ note' = NoNote
    /\ UNCHANGED <<contract, provider>>

\* The components after a step: mounted anew when the step reloaded the
\* page (their suspended functions are gone with the old document, the
\* registry and the pinning service keep what they hold), untouched
\* otherwise.
Remount ==
    /\ upload' = FileUploadMounted
    /\ uploads' = EmptyBag
    /\ display' = DisplayMounted
    /\ shares' = EmptyBag
    /\ timers' = NoTimers
    /\ requested' = ""
    /\ UNCHANGED <<pinned, chainVars, reported, unregistered>>

ClientAfter(reloaded) == IF reloaded THEN Remount ELSE UNCHANGED clientVars

(***************************************************************************)
(* handleChainChanged: window.location.reload().  The page starts over:    *)
(* every suspended function is gone with the old document, the state is    *)
(* the initial one and the mount effect runs checkMetaMaskConnection.      *)
(***************************************************************************)
Reload ==
    /\ account' = NoAccount
    /\ contract' = NULL
    /\ provider' = NULL
    /\ isConnecting' = FALSE
    /\ wrongNetwork' = FALSE
    /\ connectionError' = ""
    /\ isLoading' = TRUE
    /\ listening' = FALSE
    /\ tasks' = SetToBag({CheckTask})
    /\ note' = NoNote

\* Mutant of handleChainChanged: the notification is not acted upon.
handleChainChangedDeferred ==
    UNCHANGED <<sessionVars, listening, isConnecting, connectionError, isLoading,
                tasks, note>>

handleChainChanged == Reload

(***************************************************************************)
(* ensureCorrectNetwork, as called by connectWallet and switchNetwork.     *)
(***************************************************************************)
\* ensureCorrectNetwork returned: connectWallet goes on to
\* initializeProvider(accounts[0]), switchNetwork to initializeProvider(account)
\* "if (account)", the account being the one of its closure.
EnsureReturn(t) ==
    /\ IF t.kind = "connect" \/ t.acct # NoAccount
       THEN Suspend(t, "getNetwork", t.acct, t.reqs)
       ELSE Settle(t)
    /\ note' = NoteTouch
    /\ UNCHANGED <<sessionVars, connectionError>>

\* ensureCorrectNetwork threw "Failed to switch to Hardhat network":
\* connectWallet's catch shows error.message, switchNetwork's its own text.
EnsureThrowMessage(kind) ==
    IF kind = "connect" THEN MsgSwitchHardhat ELSE MsgSwitchManual

\* Mutant of EnsureThrow: the failure also clears the session.
EnsureThrowClears(t) ==
    /\ connectionError' = EnsureThrowMessage(t.kind)
    /\ Settle(t)
    /\ note' = NoteTouch
    /\ account' = NoAccount
    /\ contract' = NULL
    /\ provider' = NULL
    /\ wrongNetwork' = FALSE

EnsureThrow(t) ==
    /\ connectionError' = EnsureThrowMessage(t.kind)
    /\ Settle(t)
    /\ note' = NoteTouch
    /\ UNCHANGED sessionVars

ChainIdOk(t) ==
    /\ t.pc = "eth_chainId"
    /\ IF NeedsSwitch(ChainIdHex(wChain))
       THEN /\ Suspend(t, "wallet_switchEthereumChain", t.acct,
                       <<"wallet_switchEthereumChain">>)
            /\ note' = NoteTouch
            /\ UNCHANGED <<sessionVars, connectionError>>
       ELSE EnsureReturn(t)
    /\ UNCHANGED walletVars
    /\ UNCHANGED clientVars

ChainIdFail(t) ==
    /\ t.pc = "eth_chainId"
    /\ EnsureThrow(t)
    /\ UNCHANGED walletVars
    /\ UNCHANGED clientVars

\* The wallet has changed its chain while answering a request: it emits
\* chainChanged, which reaches the page before any later answer.
ChainSwitched(t, c) ==
    IF listening /\ c # wChain THEN handleChainChanged ELSE EnsureReturn(t)

\* The wallet switches to the Hardhat chain and answers the request.
SwitchOk(t) ==
    /\ t.pc = "wallet_switchEthereumChain"
    /\ wKnown
    /\ wChain' = HardhatChain
    /\ ChainSwitched(t, HardhatChain)
    /\ UNCHANGED <<ethereum, wKnown, wAcct>>
    /\ ClientAfter(listening /\ HardhatChain # wChain)

\* Mutant of AfterSwitchError: the add request follows any failed switch.
AfterSwitchErrorAlwaysAdds(t, code) ==
    /\ Suspend(t, "wallet_addEthereumChain", t.acct,
               Append(t.reqs, "wallet_addEthereumChain"))
    /\ note' = NoteTouch
    /\ UNCHANGED <<sessionVars, connectionError>>

\* What ensureCorrectNetwork does with a failed switch request.
AfterSwitchError(t, code) ==
    IF IsUnknownChain(code)
    THEN /\ Suspend(t, "wallet_addEthereumChain", t.acct,
                    Append(t.reqs, "wallet_addEthereumChain"))
         /\ note' = NoteTouch
         /\ UNCHANGED <<sessionVars, connectionError>>
    ELSE EnsureThrow(t)

\* The wallet answers 4902 exactly when it does not know the chain.
SwitchFail(t, code) ==
    /\ t.pc = "wallet_switchEthereumChain"
    /\ code = UnknownChainCode <=> ~wKnown
    /\ AfterSwitchError(t, code)
    /\ UNCHANGED walletVars
    /\ UNCHANGED clientVars

\* Mutant of AfterAdd: the switch request is issued again after the add.
AfterAddRetriesSwitch(t, c) ==
    IF listening /\ c # wChain
    THEN handleChainChanged
    ELSE /\ Suspend(t, "wallet_switchEthereumChain", t.acct,
                    Append(t.reqs, "wallet_switchEthereumChain"))
         /\ note' = NoteTouch
         /\ UNCHANGED <<sessionVars, connectionError>>

\* What ensureCorrectNetwork does once the add request has succeeded.
AfterAdd(t, c) == ChainSwitched(t, c)

\* The wallet adds the chain; it may or may not make it the current one.
AddOk(t, c) ==
    /\ t.pc = "wallet_addEthereumChain"
    /\ c \in {wChain, HardhatChain}
    /\ wKnown' = TRUE
    /\ wChain' = c
    /\ AfterAdd(t, c)
    /\ UNCHANGED <<ethereum, wAcct>>
    /\ ClientAfter(listening /\ c # wChain)

AddFail(t) ==
    /\ t.pc = "wallet_addEthereumChain"
    /\ EnsureThrow(t)
    /\ UNCHANGED walletVars
    /\ UNCHANGED clientVars

(***************************************************************************)
(* connectWallet: the Connect button is rendered while no account is set.  *)
(***************************************************************************)
ConnectTask == Task("connect", "eth_requestAccounts", NoAccount, <<>>)

\* connectWallet without its "if (!window.ethereum)" return.
ConnectWalletUnchecked ==
    /\ ~isLoading
    /\ account = NoAccount
    /\ IF ConnectGuard
       THEN UNCHANGED <<connectionError, isConnecting, tasks, note>>
       ELSE /\ BagCardinality(tasks) < MaxTasks
            /\ isConnecting' = TRUE
            /\ connectionError' = ""
            /\ tasks' = Add(tasks, ConnectTask)
            /\ note' = NoNote
    /\ UNCHANGED <<walletVars, sessionVars, listening, isLoading>>
    /\ UNCHANGED clientVars


ConnectWallet ==
    /\ ~isLoading
    /\ account = NoAccount
    /\ IF ~ethereum
       THEN /\ connectionError' = MsgNotInstalled
            /\ UNCHANGED <<isConnecting, tasks, note>>
       ELSE IF ConnectGuard
       THEN UNCHANGED <<connectionError, isConnecting, tasks, note>>
       ELSE /\ BagCardinality(tasks) < MaxTasks
            /\ isConnecting' = TRUE
            /\ connectionError' = ""
            /\ tasks' = Add(tasks, ConnectTask)
            /\ note' = NoNote
    /\ UNCHANGED <<walletVars, sessionVars, listening, isLoading>>
    /\ UNCHANGED clientVars

\* The wallet answers eth_requestAccounts with the account it exposes.
RequestAccountsOk(t) ==
    /\ t.pc = "eth_requestAccounts"
    /\ wAcct # NoAccount
    /\ Suspend(t, "eth_chainId", wAcct, <<>>)
    /\ note' = NoteTouch
    /\ UNCHANGED <<walletVars, sessionVars, connectionError>>
    /\ UNCHANGED clientVars

\* The wallet answers with an empty list: connectWallet throws.
RequestAccountsEmpty(t) ==
    /\ t.pc = "eth_requestAccounts"
    /\ wAcct = NoAccount
    /\ connectionError' = MsgNoAccounts
    /\ Settle(t)
    /\ note' = NoteTouch
    /\ UNCHANGED <<walletVars, sessionVars>>
    /\ UNCHANGED clientVars

RequestAccountsFail(t, code) ==
    /\ t.pc = "eth_requestAccounts"
    /\ connectionError' = ConnectErrorMessage(code)
    /\ Settle(t)
    /\ note' = NoteTouch
    /\ UNCHANGED <<walletVars, sessionVars>>
    /\ UNCHANGED clientVars

(***************************************************************************)
(* switchNetwork: the Switch Network button is rendered while              *)
(* wrongNetwork && account.                                                *)
(***************************************************************************)
SwitchNetwork ==
    /\ ~isLoading
    /\ wrongNetwork
    /\ account # NoAccount
    /\ BagCardinality(tasks) < MaxTasks
    /\ tasks' = Add(tasks, Task("switch", "eth_chainId", account, <<>>))
    /\ note' = NoNote
    /\ UNCHANGED <<walletVars, sessionVars, listening, isConnecting,
                   connectionError, isLoading>>
    /\ UNCHANGED clientVars

(***************************************************************************)
(* disconnectWallet: the Disconnect button is rendered while account.      *)
(***************************************************************************)
ClearSession ==
    /\ account' = NoAccount
    /\ contract' = NULL
    /\ provider' = NULL
    /\ wrongNetwork' = FALSE

\* disconnectWallet without its setConnectionError("").
disconnectWalletKeepsError ==
    /\ ClearSession
    /\ UNCHANGED connectionError

disconnectWallet ==
    /\ ClearSession
    /\ connectionError' = ""

DisconnectWallet ==
    /\ ~isLoading
    /\ account # NoAccount
    /\ disconnectWallet
    /\ tasks' = Mark(tasks, "superseded")
    /\ note' = NoNote
    /\ UNCHANGED <<walletVars, listening, isConnecting, isLoading>>
    /\ UNCHANGED clientVars

\* The advisory is dismissed by its timer or by its close button.
DismissError ==
    /\ connectionError # ""
    /\ connectionError' = ""
    /\ UNCHANGED <<walletVars, sessionVars, listening, isConnecting, isLoading,
                   tasks, note>>
    /\ UNCHANGED clientVars

(***************************************************************************)
(* Notifications of the wallet.                                            *)
(***************************************************************************)
\* The wallet is put on chain c (c = wChain: the notification is delivered
\* again) and emits chainChanged.
ChainChanged(c) ==
    /\ ethereum
    /\ c \in Chains
    /\ wChain' = c
    /\ wKnown' = (wKnown \/ c = HardhatChain)
    /\ IF listening
       THEN handleChainChanged
       ELSE /\ tasks' = Mark(tasks, "dirty")
            /\ note' = NoNote
            /\ UNCHANGED <<sessionVars, listening, isConnecting, connectionError,
                           isLoading>>
    /\ UNCHANGED <<ethereum, wAcct>>
    /\ ClientAfter(listening)

\* The notification repeats the last one, whose handling has settled, and
\* nothing has run since.
Redelivered(a) == Quiescent /\ note.settled /\ note.acct = a

handleAccountsChanged(a) ==
    IF a # NoAccount
    THEN /\ BagCardinality(tasks) < MaxTasks
         /\ tasks' = Add(Mark(tasks, "superseded"),
                         [Task("accounts", "getNetwork", a, <<>>)
                            EXCEPT !.redo = Redelivered(a)])
         /\ UNCHANGED sessionVars
    ELSE /\ ClearSession
         /\ tasks' = Mark(tasks, "superseded")

\* The wallet exposes account a, or none (a = wAcct: the notification is
\* delivered again), and emits accountsChanged.
AccountsChanged(a) ==
    /\ ethereum
    /\ a \in Accounts \cup {NoAccount}
    /\ wAcct' = a
    /\ IF listening
       THEN /\ handleAccountsChanged(a)
            /\ note' = [acct |-> a, inConnect |-> InConnect, settled |-> a = NoAccount]
       ELSE /\ tasks' = Mark(tasks, "dirty")
            /\ note' = NoNote
            /\ UNCHANGED sessionVars
    /\ UNCHANGED <<ethereum, wChain, wKnown, listening, isConnecting,
                   connectionError, isLoading>>
    /\ UNCHANGED clientVars

(***************************************************************************)
(* The wallet session on its own: the wallet answers the request a task is *)
(* suspended at, the user acts, the wallet notifies.  The feature          *)
(* components are left as they mounted and nothing is sent to the          *)
(* registry.                                                               *)
(***************************************************************************)
Next ==
    \/ \E t \in BagToSet(tasks) : EthAccountsOk(t)
    \/ \E t \in BagToSet(tasks) : EthAccountsFail(t)
    \/ \E t \in BagToSet(tasks) : GetNetworkOk(t)
    \/ \E t \in BagToSet(tasks) : GetSignerOk(t)
    \/ \E t \in BagToSet(tasks) : InitializeFail(t)
    \/ \E t \in BagToSet(tasks) : ChainIdOk(t)
    \/ \E t \in BagToSet(tasks) : ChainIdFail(t)
    \/ \E t \in BagToSet(tasks) : SwitchOk(t)
    \/ \E t \in BagToSet(tasks), code \in {UnknownChainCode, UserRejectedCode} :
          SwitchFail(t, code)
    \/ \E t \in BagToSet(tasks), c \in Chains : AddOk(t, c)
    \/ \E t \in BagToSet(tasks) : AddFail(t)
    \/ \E t \in BagToSet(tasks) : RequestAccountsOk(t)
    \/ \E t \in BagToSet(tasks) : RequestAccountsEmpty(t)
    \/ \E t \in BagToSet(tasks),
          code \in {UserRejectedCode, ProviderBusyCode} \cup OtherErrorCodes :
          RequestAccountsFail(t, code)
    \/ ConnectWallet
    \/ SwitchNetwork
    \/ DisconnectWallet
    \/ DismissError
    \/ \E c \in Chains : ChainChanged(c)
    \/ \E a \in Accounts \cup {NoAccount} : AccountsChanged(a)

Spec == Init /\ [][Next]_vars

(***************************************************************************)
(* The session from the point where a connectWallet() has just been        *)
(* refused at its eth_requestAccounts request: no account, the advisory of *)
(* the refusal, nothing in flight.  The listeners are registered unless    *)
(* the eth_accounts request of the page load failed.                       *)
(***************************************************************************)
InitRetry ==
    /\ ethereum = TRUE
    /\ wChain \in Chains
    /\ wKnown \in BOOLEAN
    /\ wChain = HardhatChain => wKnown
    /\ wAcct \in Accounts \cup {NoAccount}
    /\ listening \in BOOLEAN
    /\ account = NoAccount
    /\ contract = NULL
    /\ provider = NULL
    /\ isConnecting = FALSE
    /\ wrongNetwork = FALSE
    /\ connectionError \in {MsgRejected, MsgBusy}
    /\ isLoading = FALSE
    /\ tasks = EmptyBag
    /\ note = NoNote
    /\ ComponentsMounted
    /\ shares = EmptyBag
    /\ RegistryDeployed

SpecRetry == InitRetry /\ [][Next]_vars

(***************************************************************************)
(* The feature components.  App renders FileUpload and Display only with   *)
(* an account and on the expected network, and hands them its account and  *)
(* contract; an async function of a component keeps the account and the    *)
(* contract of the render it was called in.                                *)
(***************************************************************************)
FeaturesRendered == account # NoAccount /\ ~wrongNetwork

(***************************************************************************)
(* The chain.  A mutating call of the contract object is answered when the *)
(* wallet has signed and sent the transaction; the transaction is mined    *)
(* later, and then it is confirmed or reverted.  Display.js waits for that *)
(* with transaction.wait().                                                *)
(***************************************************************************)
Tx(op, sender, target, locator) ==
    [op |-> op, sender |-> sender, target |-> target, locator |-> locator,
     status |-> "submitted"]

Signer(c) == c[1].signer

\* The transactions of one sender are mined in the order they were sent.
NextToMine(i) ==
    /\ i \in 1..Len(txs)
    /\ txs[i].status = "submitted"
    /\ \A k \in 1..(i - 1) :
          txs[k].sender = txs[i].sender => txs[k].status # "submitted"

\* The registry: add(owner, locator) appends the locator to the owner's.
RegistryAdd(owner, locator) ==
    [value EXCEPT ![owner] = Append(@, locator)]

HasRecord(owner, user) ==
    \E k \in 1..Len(accessList[owner]) : accessList[owner][k].user = user

SetAccess(owner, user, on) ==
    [k \in 1..Len(accessList[owner]) |->
        IF accessList[owner][k].user = user
        THEN [accessList[owner][k] EXCEPT !.access = on]
        ELSE accessList[owner][k]]

\* The registry: one record per grantee of an owner; allow(user) creates it
\* or sets its flag, disallow(user) clears its flag.
RegistryAllow(owner, user) ==
    [accessList EXCEPT ![owner] =
        IF HasRecord(owner, user) THEN SetAccess(owner, user, TRUE)
        ELSE Append(@, [user |-> user, access |-> TRUE])]

RegistryDisallow(owner, user) ==
    [accessList EXCEPT ![owner] = SetAccess(owner, user, FALSE)]

Mine(i) ==
    /\ NextToMine(i)
    /\ txs' = [txs EXCEPT ![i].status = "confirmed"]
    /\ value' = IF txs[i].op = "add"
                THEN RegistryAdd(txs[i].target, txs[i].locator)
                ELSE value
    /\ accessList' = IF txs[i].op = "allow"
                     THEN RegistryAllow(txs[i].sender, txs[i].target)
                     ELSE IF txs[i].op = "disallow"
                     THEN RegistryDisallow(txs[i].sender, txs[i].target)
                     ELSE accessList
    /\ UNCHANGED <<appVars, upload, uploads, display, shares, timers, pinned,
                   history>>

Revert(i) ==
    /\ NextToMine(i)
    /\ txs' = [txs EXCEPT ![i].status = "reverted"]
    /\ UNCHANGED <<appVars, upload, uploads, display, shares, timers, pinned,
                   value, accessList, history>>

(***************************************************************************)
(* FileUpload.js                                                           *)
(***************************************************************************)
AllowedTypes == {"image/jpeg", "image/png", "image/gif", "image/webp"}

MaxSize == 10 * 1024 * 1024

\* The files the user picks from.
Files ==
    {[name |-> "a.png", type |-> "image/png", size |-> 2048, bytes |-> "a"],
     [name |-> "b.webp", type |-> "image/webp", size |-> MaxSize, bytes |-> "b"],
     [name |-> "c.pdf", type |-> "application/pdf", size |-> 2048, bytes |-> "c"],
     [name |-> "d.png", type |-> "image/png", size |-> MaxSize + 1, bytes |-> "d"]}

MsgBadType == "Please select a valid image file (JPEG, PNG, GIF, WebP)"

MsgTooLarge == "File size must be less than 10MB"

MsgUploadFailed ==
    "Failed to upload file. Please check your connection and try again."

MsgUploaded == "File uploaded successfully to blockchain!"

\* Strings that are taken apart are sequences of characters.
\* "https://gateway.pinata.cloud/ipfs/"
GatewayBase ==
    <<"h", "t", "t", "p", "s", ":", "/", "/", "g", "a", "t", "e",
      "w", "a", "y", ".", "p", "i", "n", "a", "t", "a", ".", "c",
      "l", "o", "u", "d", "/", "i", "p", "f", "s", "/">>

\* The pinning service names a file by its content.
IpfsHash(f) == <<"Q", "m", f.bytes>>

\* handleSubmit: the locator it registers for a content identifier.
ImgHash(cid) == GatewayBase \o cid

\* handleFileSelection without its two validations.
handleFileSelectionUnchecked(f) ==
    /\ FeaturesRendered
    /\ upload' = [upload EXCEPT !.file = <<f>>, !.fileName = f.name,
                                !.error = ""]
    /\ UNCHANGED <<appVars, uploads, display, shares, timers, pinned,
                   chainVars, history>>

handleFileSelection(f) ==
    /\ FeaturesRendered
    /\ upload' = IF f.type \notin AllowedTypes
                 THEN [upload EXCEPT !.error = MsgBadType]
                 ELSE IF f.size > MaxSize
                 THEN [upload EXCEPT !.error = MsgTooLarge]
                 ELSE [upload EXCEPT !.file = <<f>>, !.fileName = f.name,
                                     !.error = ""]
    /\ UNCHANGED <<appVars, uploads, display, shares, timers, pinned,
                   chainVars, history>>

\* The remove button is rendered with the preview of the selected file.
removeFile ==
    /\ FeaturesRendered
    /\ upload.file # NULL
    /\ upload' = [upload EXCEPT !.file = NULL, !.fileName = "", !.error = ""]
    /\ UNCHANGED <<appVars, uploads, display, shares, timers, pinned,
                   chainVars, history>>

\* The progress intervals that are running: those of the suspended
\* handleSubmit invocations and those left behind by failed ones.
Ticking(j) == j.ticking

Intervals ==
    timers.progress
    + BagCardinality([j \in {u \in BagToSet(uploads) : Ticking(u)} |-> uploads[j]])

\* The submit button is disabled without a file, without an account and
\* while uploading, so the "if (!file)" return is not taken.  The function
\* starts its progress interval and awaits the pinning request.
handleSubmit ==
    /\ FeaturesRendered
    /\ upload.file # NULL
    /\ ~upload.uploading
    /\ Intervals < MaxIntervals
    /\ upload' = [upload EXCEPT !.uploading = TRUE, !.error = "",
                                !.success = "", !.uploadProgress = 0]
    /\ uploads' = Add(uploads, [pc |-> "pin", file |-> upload.file[1],
                                contract |-> contract, account |-> account,
                                ticking |-> TRUE, locator |-> <<>>])
    /\ UNCHANGED <<appVars, display, shares, timers, pinned, chainVars,
                   history>>

\* The callback of a progress interval: "prev >= 90" clears the interval.
ProgressStep(prev) == IF prev >= 90 THEN 90 ELSE prev + 10

ProgressTick(j) ==
    /\ j.ticking
    /\ upload' = [upload EXCEPT !.uploadProgress = ProgressStep(@)]
    /\ uploads' = IF upload.uploadProgress >= 90
                  THEN Add(Remove(uploads, j), [j EXCEPT !.ticking = FALSE])
                  ELSE uploads
    /\ UNCHANGED <<appVars, display, shares, timers, pinned, chainVars,
                   history>>

\* The same callback, of an interval whose handleSubmit has ended.
StaleProgressTick ==
    /\ timers.progress > 0
    /\ upload' = [upload EXCEPT !.uploadProgress = ProgressStep(@)]
    /\ timers' = IF upload.uploadProgress >= 90
                 THEN [timers EXCEPT !.progress = @ - 1]
                 ELSE timers
    /\ UNCHANGED <<appVars, uploads, display, shares, pinned, chainVars,
                   history>>

\* handleSubmit's catch and finally.  The interval is a constant of the try
\* block: only the success path of the pinning request clears it.
UploadFails(j, cleared) ==
    /\ upload' = [upload EXCEPT !.error = MsgUploadFailed,
                                !.uploadProgress = 0, !.uploading = FALSE]
    /\ uploads' = Remove(uploads, j)
    /\ timers' = IF j.ticking /\ ~cleared
                 THEN [timers EXCEPT !.progress = @ + 1]
                 ELSE timers

\* The pinning service answers: the interval is cleared, the progress is
\* 95, and the function goes on to contract.add if it holds a contract and
\* an account.
PinOk(j) ==
    /\ j.pc = "pin"
    /\ pinned' = pinned \cup {IpfsHash(j.file)}
    /\ IF j.contract # NULL /\ j.account # NoAccount
       THEN /\ upload' = [upload EXCEPT !.uploadProgress = 95]
            /\ uploads' = Add(Remove(uploads, j),
                              [j EXCEPT !.pc = "add", !.ticking = FALSE,
                                        !.locator = ImgHash(IpfsHash(j.file))])
            /\ UNCHANGED timers
       ELSE UploadFails(j, TRUE)
    /\ UNCHANGED <<appVars, display, shares, chainVars, history>>

PinFail(j) ==
    /\ j.pc = "pin"
    /\ UploadFails(j, FALSE)
    /\ UNCHANGED <<appVars, display, shares, pinned, chainVars, history>>

\* "await contract.add(account, ImgHash)" is answered: the transaction has
\* been sent.  The function sets the progress to 100 and the success
\* message, starts the reset timer and ends.
ContractAddSent(j) ==
    /\ j.pc = "add"
    /\ Len(txs) < MaxTxs
    /\ txs' = Append(txs, Tx("add", Signer(j.contract), j.account, j.locator))
    /\ upload' = [upload EXCEPT !.uploadProgress = 100, !.success = MsgUploaded,
                                !.uploading = FALSE]
    /\ uploads' = Remove(uploads, j)
    /\ timers' = [timers EXCEPT !.reset = @ + 1]
    /\ reported' = reported \cup {Len(txs) + 1}
    /\ UNCHANGED <<unregistered, requested>>
    /\ UNCHANGED <<appVars, display, shares, pinned, value, accessList>>

\* Mutant of ContractAddFail: the refused registration is tried again from
\* the pinning request.
ContractAddFailRetries(j) ==
    /\ j.pc = "add"
    /\ uploads' = Add(Remove(uploads, j), [j EXCEPT !.pc = "pin", !.locator = <<>>])
    /\ unregistered' = unregistered \cup {j.locator}
    /\ UNCHANGED <<upload, timers>>
    /\ UNCHANGED <<appVars, display, shares, pinned, chainVars, reported,
                   requested>>

\* The wallet refuses the transaction, or the call fails before it is sent.
ContractAddFail(j) ==
    /\ j.pc = "add"
    /\ UploadFails(j, FALSE)
    /\ unregistered' = unregistered \cup {j.locator}
    /\ UNCHANGED <<appVars, display, shares, pinned, chainVars, reported,
                   requested>>

\* The reset timer without its setFile(null) and setFileName("").
ResetFormKeepsFile ==
    /\ timers.reset > 0
    /\ timers' = [timers EXCEPT !.reset = @ - 1]
    /\ upload' = [upload EXCEPT !.uploadProgress = 0, !.success = ""]
    /\ UNCHANGED <<appVars, uploads, display, shares, pinned, chainVars,
                   history>>

\* The reset timer of a successful upload.
ResetForm ==
    /\ timers.reset > 0
    /\ timers' = [timers EXCEPT !.reset = @ - 1]
    /\ upload' = [upload EXCEPT !.fileName = "", !.file = NULL,
                                !.uploadProgress = 0, !.success = ""]
    /\ UNCHANGED <<appVars, uploads, display, shares, pinned, chainVars,
                   history>>

(***************************************************************************)
(* Display.js: the share modal.                                            *)
(***************************************************************************)
\* What the user types into the address field of the modal.
ShareInputs == Accounts \cup {"", " ", "0xZZ"}

\* String.trim() on those inputs.
Trim(s) == IF s = " " THEN "" ELSE s

\* The addresses the contract object accepts as an argument.
IsAddress(s) == s \in Accounts

MsgNoContract == "Contract not available"

MsgBadAddress == "Please enter a valid address"

MsgShareFailed == "Failed to share access. Please try again."

MsgRevokeFailed == "Failed to revoke access. Please try again."

MsgShared(target) == <<"Successfully shared access with ", target>>

MsgRevoked(target) == <<"Successfully revoked access for ", target>>

ShareJob(kind, pc, target) ==
    [kind |-> kind, pc |-> pc, contract |-> contract, account |-> account,
     target |-> target, tx |-> 0, answer |-> <<>>]

\* Display's mount effect: with an account and a contract it calls
\* loadSharedAccess, which awaits contract.shareAccess().
MountEffect ==
    IF account # NoAccount /\ contract # NULL
    THEN SetToBag({ShareJob("mount", "shareAccess", "")})
    ELSE EmptyBag

openShareModal ==
    /\ FeaturesRendered
    /\ display' = [display EXCEPT !.showShareModal = TRUE, !.shareAddress = "",
                                  !.error = ""]
    /\ UNCHANGED <<appVars, upload, uploads, shares, timers, pinned, chainVars,
                   history>>

closeShareModal ==
    /\ FeaturesRendered
    /\ display.showShareModal
    /\ display' = [display EXCEPT !.showShareModal = FALSE, !.shareAddress = "",
                                  !.shareLoading = FALSE]
    /\ UNCHANGED <<appVars, upload, uploads, shares, timers, pinned, chainVars,
                   history>>

setShareAddress(s) ==
    /\ FeaturesRendered
    /\ display.showShareModal
    /\ display' = [display EXCEPT !.shareAddress = s]
    /\ UNCHANGED <<appVars, upload, uploads, shares, timers, pinned, chainVars,
                   history>>

\* The Grant Access button, disabled while shareLoading and with a blank
\* address, calls shareAccess(shareAddress).
shareAccess ==
    /\ FeaturesRendered
    /\ display.showShareModal
    /\ ~display.shareLoading
    /\ Trim(display.shareAddress) # ""
    /\ BagCardinality(shares) < MaxShares
    /\ IF contract = NULL \/ account = NoAccount
       THEN /\ display' = [display EXCEPT !.error = MsgNoContract]
            /\ UNCHANGED shares
       ELSE IF Trim(display.shareAddress) = ""
       THEN /\ display' = [display EXCEPT !.error = MsgBadAddress]
            /\ UNCHANGED shares
       ELSE /\ display' = [display EXCEPT !.shareLoading = TRUE, !.error = ""]
            /\ shares' = Add(shares, ShareJob("shareAccess", "allow",
                                              display.shareAddress))
    /\ UNCHANGED <<appVars, upload, uploads, timers, pinned, chainVars,
                   history>>

\* The revoke button of the k-th listed record, rendered while the record
\* is active, calls revokeAccess(access.user).
revokeAccess(k) ==
    /\ FeaturesRendered
    /\ display.showShareModal
    /\ k \in 1..Len(display.sharedAccess)
    /\ display.sharedAccess[k].access
    /\ BagCardinality(shares) < MaxShares
    /\ IF contract = NULL \/ account = NoAccount
       THEN /\ display' = [display EXCEPT !.error = MsgNoContract]
            /\ UNCHANGED shares
       ELSE /\ shares' = Add(shares, ShareJob("revokeAccess", "disallow",
                                              display.sharedAccess[k].user))
            /\ UNCHANGED display
    /\ UNCHANGED <<appVars, upload, uploads, timers, pinned, chainVars,
                   history>>

\* "await contract.allow(...)" / "await contract.disallow(...)" is
\* answered with the transaction that was sent; the function goes on to
\* "await transaction.wait()".
TransactionSent(j) ==
    /\ j.pc \in {"allow", "disallow"}
    /\ IsAddress(j.target)
    /\ Len(txs) < MaxTxs
    /\ txs' = Append(txs, Tx(j.pc, Signer(j.contract), j.target, <<>>))
    /\ shares' = Add(Remove(shares, j),
                     [j EXCEPT !.pc = "wait", !.tx = Len(txs) + 1])
    /\ UNCHANGED <<appVars, upload, uploads, display, timers, pinned, value,
                   accessList, history>>

\* The catch of shareAccess / revokeAccess, and the finally of shareAccess.
ShareFails(j) ==
    /\ display' = [display EXCEPT
                     !.error = IF j.kind = "shareAccess" THEN MsgShareFailed
                               ELSE MsgRevokeFailed,
                     !.shareLoading = IF j.kind = "shareAccess" THEN FALSE
                                      ELSE @]
    /\ shares' = Remove(shares, j)

\* The call is refused: by the contract object for an argument that is not
\* an address, or by the wallet.
TransactionRefused(j) ==
    /\ j.pc \in {"allow", "disallow"}
    /\ ShareFails(j)
    /\ UNCHANGED <<appVars, upload, uploads, timers, pinned, chainVars,
                   history>>

\* Without "await transaction.wait()": the function goes on as soon as the
\* transaction has been sent.
WaitNotAwaited(j) ==
    /\ j.pc = "wait"
    /\ display' = IF j.kind = "shareAccess"
                  THEN [display EXCEPT !.successMessage = MsgShared(j.target),
                                       !.shareAddress = "",
                                       !.showShareModal = FALSE]
                  ELSE [display EXCEPT !.successMessage = MsgRevoked(j.target)]
    /\ shares' = Add(Remove(shares, j), [j EXCEPT !.pc = "shareAccess"])
    /\ reported' = reported \cup {j.tx}
    /\ UNCHANGED <<unregistered, requested>>
    /\ UNCHANGED <<appVars, upload, uploads, timers, pinned, chainVars>>

\* transaction.wait() returns once the transaction is confirmed: the
\* success message is set (shareAccess also closes the modal) and the
\* function awaits loadSharedAccess().
WaitConfirmed(j) ==
    /\ j.pc = "wait"
    /\ txs[j.tx].status = "confirmed"
    /\ display' = IF j.kind = "shareAccess"
                  THEN [display EXCEPT !.successMessage = MsgShared(j.target),
                                       !.shareAddress = "",
                                       !.showShareModal = FALSE]
                  ELSE [display EXCEPT !.successMessage = MsgRevoked(j.target)]
    /\ shares' = Add(Remove(shares, j), [j EXCEPT !.pc = "shareAccess"])
    /\ reported' = reported \cup {j.tx}
    /\ UNCHANGED <<unregistered, requested>>
    /\ UNCHANGED <<appVars, upload, uploads, timers, pinned, chainVars>>

\* transaction.wait() throws for a reverted transaction.
WaitReverted(j) ==
    /\ j.pc = "wait"
    /\ txs[j.tx].status = "reverted"
    /\ ShareFails(j)
    /\ UNCHANGED <<appVars, upload, uploads, timers, pinned, chainVars,
                   history>>

\* The tail of shareAccess / revokeAccess after loadSharedAccess() has
\* returned: the timer that clears the success message, and the finally of
\* shareAccess.  loadSharedAccess() called by the mount effect has no tail.
LoadReturns(j, list) ==
    /\ display' = [display EXCEPT
                     !.sharedAccess = list,
                     !.shareLoading = IF j.kind = "shareAccess" THEN FALSE
                                      ELSE @]
    /\ shares' = Remove(shares, j)
    /\ timers' = IF j.kind = "mount" THEN timers
                 ELSE [timers EXCEPT !.clear = @ + 1]

\* loadSharedAccess: the node evaluates contract.shareAccess() on the
\* records of the caller; its answer is on its way back.
SharedAccessRead(j) ==
    /\ j.pc = "shareAccess"
    /\ shares' = Add(Remove(shares, j),
                     [j EXCEPT !.pc = "answered",
                               !.answer = accessList[Signer(j.contract)]])
    /\ UNCHANGED <<appVars, upload, uploads, display, timers, pinned,
                   chainVars, history>>

\* loadSharedAccess: the answer arrives and is set as the list.
SharedAccessLoaded(j) ==
    /\ j.pc = "answered"
    /\ LoadReturns(j, j.answer)
    /\ UNCHANGED <<appVars, upload, uploads, pinned, chainVars, history>>

\* loadSharedAccess catches the failure of the read.
SharedAccessFailed(j) ==
    /\ j.pc \in {"shareAccess", "answered"}
    /\ LoadReturns(j, display.sharedAccess)
    /\ UNCHANGED <<appVars, upload, uploads, pinned, chainVars, history>>

\* The timer that clears the success message.
ClearSuccessMessage ==
    /\ timers.clear > 0
    /\ timers' = [timers EXCEPT !.clear = @ - 1]
    /\ display' = [display EXCEPT !.successMessage = NoMessage]
    /\ UNCHANGED <<appVars, upload, uploads, shares, pinned, chainVars,
                   history>>

(***************************************************************************)
(* Display.js: looking up the files of an address.                         *)
(***************************************************************************)
MaxLookups == 2

\* "ipfs://"
IpfsScheme == <<"i", "p", "f", "s", ":", "/", "/">>

MsgEnterAddress == "Please enter an address"

MsgNoFiles == "No files found for this address"

MsgNoAccess == "You don't have access to view files from this address"

ViewInputs == Accounts \cup {"", " ", "0xZZ"}

\* item.startsWith(prefix)
StartsWith(item, prefix) ==
    /\ Len(item) >= Len(prefix)
    /\ SubSeq(item, 1, Len(prefix)) = prefix

\* item.substring(n)
Substring(item, n) == SubSeq(item, n + 1, Len(item))

\* Without the "ipfs://" branch.
imageUrlKeepsScheme(item) ==
    IF StartsWith(item, GatewayBase) THEN item ELSE GatewayBase \o item

\* getdata: the location an item of the registry is fetched from.
imageUrl(item) ==
    IF StartsWith(item, GatewayBase) THEN item
    ELSE IF StartsWith(item, IpfsScheme)
    THEN GatewayBase \o Substring(item, 7)
    ELSE GatewayBase \o item

processedImages(dataArray) ==
    [i \in 1..Len(dataArray) |->
        [id |-> i - 1, url |-> imageUrl(dataArray[i]), hash |-> dataArray[i],
         name |-> <<"File ", i>>]]

\* The registry: display(target) answers the owner and the users the
\* owner's records give access to.
RegistryDisplayAllowed(caller, target) ==
    \/ caller = target
    \/ \E k \in 1..Len(accessList[target]) :
          /\ accessList[target][k].user = caller
          /\ accessList[target][k].access

Lookups ==
    BagCardinality([j \in {u \in BagToSet(shares) : u.kind = "getdata"}
                       |-> shares[j]])

\* getdata(address) from the display state d, up to its await.
getdata(d, address) ==
    IF contract = NULL
    THEN /\ display' = [d EXCEPT !.error = MsgNoContract]
         /\ UNCHANGED <<shares, requested>>
    ELSE LET targetAddress == IF address # "" THEN address
                              ELSE IF d.viewAddress # "" THEN d.viewAddress
                              ELSE account
         IN  IF targetAddress = ""
             THEN /\ display' = [d EXCEPT !.error = MsgEnterAddress]
                  /\ UNCHANGED <<shares, requested>>
             ELSE /\ display' = [d EXCEPT !.loading = TRUE, !.error = ""]
                  /\ shares' = Add(shares,
                                   ShareJob("getdata", "display", targetAddress))
                  /\ requested' = targetAddress

setViewAddress(s) ==
    /\ FeaturesRendered
    /\ display' = [display EXCEPT !.viewAddress = s]
    /\ UNCHANGED <<appVars, upload, uploads, shares, timers, pinned,
                   chainVars, history>>

\* The search button is disabled while loading; the Enter key is not.
handleSearch ==
    /\ FeaturesRendered
    /\ Lookups < MaxLookups
    /\ IF Trim(display.viewAddress) = ""
       THEN /\ display' = [display EXCEPT !.error = MsgBadAddress]
            /\ UNCHANGED <<shares, requested>>
       ELSE getdata(display, display.viewAddress)
    /\ UNCHANGED <<appVars, upload, uploads, timers, pinned, chainVars,
                   reported, unregistered>>

\* The "My Files" button.
loadUserFiles ==
    /\ FeaturesRendered
    /\ Lookups < MaxLookups
    /\ getdata([display EXCEPT !.viewAddress = account], account)
    /\ UNCHANGED <<appVars, upload, uploads, timers, pinned, chainVars,
                   reported, unregistered>>

\* The close button of the error alert.
DismissDisplayError ==
    /\ FeaturesRendered
    /\ display.error # ""
    /\ display' = [display EXCEPT !.error = ""]
    /\ UNCHANGED <<appVars, upload, uploads, shares, timers, pinned,
                   chainVars, history>>

\* contract.display(targetAddress) answers with the files of the target.
DisplayReturns(j) ==
    /\ j.pc = "display"
    /\ IsAddress(j.target)
    /\ RegistryDisplayAllowed(Signer(j.contract), j.target)
    /\ display' = IF value[j.target] = <<>>
                  THEN [display EXCEPT !.data = <<>>, !.error = MsgNoFiles,
                                       !.currentViewingAddress = j.target,
                                       !.loading = FALSE]
                  ELSE [display EXCEPT
                          !.data = processedImages(value[j.target]),
                          !.currentViewingAddress = j.target,
                          !.loading = FALSE]
    /\ shares' = Remove(shares, j)
    /\ UNCHANGED <<appVars, upload, uploads, timers, pinned, chainVars,
                   history>>

\* getdata's catch and finally.
DisplayThrows(j) ==
    /\ j.pc = "display"
    /\ display' = [display EXCEPT !.error = MsgNoAccess, !.data = <<>>,
                                  !.loading = FALSE]
    /\ shares' = Remove(shares, j)
    /\ UNCHANGED <<appVars, upload, uploads, timers, pinned, chainVars,
                   history>>

\* The registry denies the caller the files of the target.
DisplayDenied(j) ==
    /\ IsAddress(j.target)
    /\ ~RegistryDisplayAllowed(Signer(j.contract), j.target)
    /\ DisplayThrows(j)

\* The call fails otherwise: the target is no address, or the node does
\* not answer.
DisplayFails(j) == DisplayThrows(j)

(***************************************************************************)
(* The feature components under a session that has settled with an account *)
(* on the expected network: with its contract, or with none after          *)
(* initializeProvider failed at getSigner.  The two components share no    *)
(* state but the account and the contract App hands them, and the chain:   *)
(* each is run on its own, with the chain.                                 *)
(***************************************************************************)
SessionReady ==
    /\ ethereum = TRUE
    /\ wChain = HardhatChain
    /\ wKnown = TRUE
    /\ wAcct \in Accounts
    /\ listening = TRUE
    /\ account = wAcct
    /\ contract \in {NewContract(wAcct), NULL}
    /\ provider = NewProvider
    /\ isConnecting = FALSE
    /\ wrongNetwork = FALSE
    /\ connectionError = (IF contract = NULL THEN MsgInitFailed ELSE "")
    /\ isLoading = FALSE
    /\ tasks = EmptyBag
    /\ note = NoNote

InitClient ==
    /\ SessionReady
    /\ ComponentsMounted
    /\ shares = MountEffect
    /\ RegistryDeployed

NextUpload ==
    \/ \E f \in Files : handleFileSelection(f)
    \/ removeFile
    \/ handleSubmit
    \/ \E j \in BagToSet(uploads) : ProgressTick(j)
    \/ StaleProgressTick
    \/ \E j \in BagToSet(uploads) : PinOk(j)
    \/ \E j \in BagToSet(uploads) : PinFail(j)
    \/ \E j \in BagToSet(uploads) : ContractAddSent(j)
    \/ \E j \in BagToSet(uploads) : ContractAddFail(j)
    \/ ResetForm
    \/ \E i \in 1..MaxTxs : Mine(i)
    \/ \E i \in 1..MaxTxs : Revert(i)

SpecUpload == InitClient /\ [][NextUpload]_vars

\* The form alone, without the mining of the transactions it sends, which
\* no step of the form reads.  A timeout that has been set fires: the reset
\* timer of a successful upload runs its callback after its delay.
NextForm ==
    \/ \E f \in Files : handleFileSelection(f)
    \/ removeFile
    \/ handleSubmit
    \/ \E j \in BagToSet(uploads) : ProgressTick(j)
    \/ StaleProgressTick
    \/ \E j \in BagToSet(uploads) : PinOk(j)
    \/ \E j \in BagToSet(uploads) : PinFail(j)
    \/ \E j \in BagToSet(uploads) : ContractAddSent(j)
    \/ \E j \in BagToSet(uploads) : ContractAddFail(j)
    \/ ResetForm

SpecUploadFair == InitClient /\ [][NextForm]_vars /\ WF_vars(ResetForm)

NextShare ==
    \/ openShareModal
    \/ closeShareModal
    \/ \E s \in ShareInputs : setShareAddress(s)
    \/ shareAccess
    \/ \E k \in 1..MaxTxs : revokeAccess(k)
    \/ \E j \in BagToSet(shares) : TransactionSent(j)
    \/ \E j \in BagToSet(shares) : TransactionRefused(j)
    \/ \E j \in BagToSet(shares) : WaitConfirmed(j)
    \/ \E j \in BagToSet(shares) : WaitReverted(j)
    \/ \E j \in BagToSet(shares) : SharedAccessRead(j)
    \/ \E j \in BagToSet(shares) : SharedAccessLoaded(j)
    \/ \E j \in BagToSet(shares) : SharedAccessFailed(j)
    \/ ClearSuccessMessage
    \/ \E i \in 1..MaxTxs : Mine(i)
    \/ \E i \in 1..MaxTxs : Revert(i)

SpecShare == InitClient /\ [][NextShare]_vars

(***************************************************************************)
(* Display on its own, over a registry other users have written to: the    *)
(* registry takes any string as a locator, and the records of an owner     *)
(* name the other account.                                                 *)
(***************************************************************************)
Cids == {<<"Q", "m", "a">>, <<"b", "a", "f", "y">>}

OtherItem == <<"h", "t", "t", "p", ":", "/", "/", "x">>

FileLists ==
    {<<>>,
     <<<<"Q", "m", "a">>, IpfsScheme \o <<"Q", "m", "a">>,
       GatewayBase \o <<"Q", "m", "a">>>>,
     <<GatewayBase \o <<"b", "a", "f", "y">>,
       IpfsScheme \o <<"b", "a", "f", "y">>>>,
     <<<<>>, OtherItem, <<"b", "a", "f", "y">>>>}

GrantLists(owner) ==
    {<<>>} \cup {<<[user |-> u, access |-> on]>> :
                    u \in Accounts \ {owner}, on \in BOOLEAN}

RegistryInUse ==
    /\ pinned = {}
    /\ txs = <<>>
    /\ value \in [Accounts -> FileLists]
    /\ accessList \in {g \in [Accounts -> UNION {GrantLists(a) : a \in Accounts}] :
                          \A a \in Accounts : g[a] \in GrantLists(a)}

\* The mount effect of Display: loadUserFiles and loadSharedAccess, each up
\* to its await.
InitView ==
    /\ SessionReady
    /\ upload = FileUploadMounted
    /\ uploads = EmptyBag
    /\ timers = NoTimers
    /\ reported = {}
    /\ unregistered = {}
    /\ requested = (IF account # NoAccount /\ contract # NULL THEN account
                    ELSE "")
    /\ display = IF account # NoAccount /\ contract # NULL
                 THEN [DisplayMounted EXCEPT !.viewAddress = account,
                                             !.loading = TRUE]
                 ELSE DisplayMounted
    /\ shares = IF account # NoAccount /\ contract # NULL
                THEN MountEffect (+) SetToBag({ShareJob("getdata", "display",
                                                        account)})
                ELSE EmptyBag
    /\ RegistryInUse

NextView ==
    \/ \E s \in ViewInputs : setViewAddress(s)
    \/ handleSearch
    \/ loadUserFiles
    \/ DismissDisplayError
    \/ \E j \in BagToSet(shares) : DisplayReturns(j)
    \/ \E j \in BagToSet(shares) : DisplayDenied(j)
    \/ \E j \in BagToSet(shares) : DisplayFails(j)
    \/ \E j \in BagToSet(shares) : SharedAccessRead(j)
    \/ \E j \in BagToSet(shares) : SharedAccessLoaded(j)
    \/ \E j \in BagToSet(shares) : SharedAccessFailed(j)

SpecView == InitView /\ [][NextView]_vars

(***************************************************************************)
(* A page load together with a registry call of a feature component:       *)
(* checkMetaMaskConnection and its initializeProvider, the wallet changing *)
(* its chain, the user disconnecting, and the lookups of Display, rendered *)
(* under the guard of App.                                                 *)
(***************************************************************************)
NextGuard ==
    \/ \E t \in BagToSet(tasks) : EthAccountsOk(t)
    \/ \E t \in BagToSet(tasks) : EthAccountsFail(t)
    \/ \E t \in BagToSet(tasks) : GetNetworkOk(t)
    \/ \E t \in BagToSet(tasks) : GetSignerOk(t)
    \/ \E t \in BagToSet(tasks) : InitializeFail(t)
    \/ \E c \in Chains : ChainChanged(c)
    \/ DisconnectWallet
    \/ \E s \in ViewInputs : setViewAddress(s)
    \/ handleSearch
    \/ loadUserFiles
    \/ \E j \in BagToSet(shares) : DisplayReturns(j)
    \/ \E j \in BagToSet(shares) : DisplayFails(j)

SpecGuard == Init /\ [][NextGuard]_vars


(***************************************************************************)
(* Session states of the specification, as predicates on the App state.    *)
(***************************************************************************)
Disconnected ==
    account = NoAccount /\ contract = NULL /\ provider = NULL /\ ~wrongNetwork

ConnectedReady(a) ==
    account = a /\ a # NoAccount /\ ~wrongNetwork /\ contract # NULL

ConnectedWrongNetwork(a) ==
    account = a /\ a # NoAccount /\ wrongNetwork

\* The number of suspended tasks that satisfy P.
CountTasks(P(_)) ==
    BagCardinality([t \in {u \in BagToSet(tasks) : P(u)} |-> tasks[t]])

AtRequestAccounts(t) == t.pc = "eth_requestAccounts"

IsConnect(t) == t.kind = "connect"

SwitchAdd == <<"wallet_switchEthereumChain", "wallet_addEthereumChain">>

SwitchAddSwitch ==
    <<"wallet_switchEthereumChain", "wallet_addEthereumChain",
      "wallet_switchEthereumChain">>

Issued(t, req) == \E k \in 1..Len(t.reqs) : t.reqs[k] = req

PastEnsure(t) == t.pc \in {"getNetwork", "getSigner"}

(***************************************************************************)
(* C1.  Latest wins: when accountsChanged notifications were delivered     *)
(* while a connectWallet() was in flight and nothing else was started      *)
(* since, then once everything has settled the session is the one derived  *)
(* from the last notification: Disconnected for an empty list, and for a   *)
(* non-empty one the session of its first account (no account at all only *)
(* where a provider request of its handler failed).                        *)
(***************************************************************************)
C1_LatestWins ==
    (Quiescent /\ note.acct # "none" /\ note.inConnect) =>
        /\ account \in {note.acct, NoAccount}
        /\ note.acct = NoAccount => Disconnected
        /\ contract # NULL => contract = NewContract(note.acct)

(***************************************************************************)
(* C2.  At most one eth_requestAccounts request is outstanding, and while  *)
(* a connectWallet() is in flight the guard of connectWallet holds, so     *)
(* that a further call returns without a request.                          *)
(***************************************************************************)
C2_SingleAuthorization ==
    /\ CountTasks(AtRequestAccounts) <= 1
    /\ CountTasks(IsConnect) <= 1
    /\ InConnect => isConnecting

\* A connect is awaiting eth_requestAccounts while the Connect button is
\* rendered: a second call can be made, and is a no-op.
C2_Witness ==
    /\ CountTasks(AtRequestAccounts) = 1
    /\ ~isLoading
    /\ account = NoAccount
    /\ isConnecting

EnsureRequestFails(t) ==
    \/ \E code \in {UserRejectedCode} \cup OtherErrorCodes : SwitchFail(t, code)
    \/ AddFail(t)

NetworkSwitchFailed == {MsgSwitchHardhat, MsgSwitchManual}

(***************************************************************************)
(* C4, as claimed.  Such a failure is reported as NetworkSwitchFailed and  *)
(* leaves the session ConnectedWrongNetwork: the account set, wrongNetwork *)
(* true and no call context created, for either caller.                    *)
(***************************************************************************)
C4_RemainsWrongNetwork ==
    [][\A t \in BagToSet(tasks) :
          EnsureRequestFails(t) =>
              /\ connectionError' \in NetworkSwitchFailed
              /\ account' # NoAccount
              /\ wrongNetwork'
              /\ contract' = contract]_vars

(***************************************************************************)
(* C4, amended.  Such a failure is reported as NetworkSwitchFailed and     *)
(* writes nothing else to the session: account, wrongNetwork, contract and *)
(* provider are left as they were and no call context is created.  Entered *)
(* from switchNetwork(), with nothing else having run meanwhile, the       *)
(* session so remains ConnectedWrongNetwork(account); entered from         *)
(* connectWallet(), no account has been set yet: the session stays without *)
(* an account, and isConnecting is cleared.                                *)
(***************************************************************************)
C4_FailureLeavesSession ==
    [][\A t \in BagToSet(tasks) :
          EnsureRequestFails(t) =>
              /\ connectionError' \in NetworkSwitchFailed
              /\ UNCHANGED <<account, wrongNetwork, contract, provider>>
              /\ (t.kind = "switch" /\ t.hist = "clean") =>
                    (account' = t.acct /\ account' # NoAccount /\ wrongNetwork')
              /\ (t.kind = "connect" /\ t.hist = "clean") => account' = NoAccount
              /\ t.kind = "connect" => ~isConnecting']_vars

\* A switchNetwork() has failed and left the session ConnectedWrongNetwork.
C4_Witness ==
    /\ Quiescent
    /\ connectionError = MsgSwitchManual
    /\ wrongNetwork
    /\ account # NoAccount

\* The step in which connect task t returns: it leaves the suspended tasks.
ConnectSettles(t) ==
    t.kind = "connect" /\ tasks' = Mark(Remove(tasks, t), "dirty")

(***************************************************************************)
(* C5.  Whenever a connectWallet() that nothing else interfered with       *)
(* settles with an account set, the session is ConnectedReady (wrongNetwork*)
(* false, contract non-null) if the wallet's chain is the expected one and *)
(* ConnectedWrongNetwork (wrongNetwork true) otherwise.                    *)
(***************************************************************************)
C5_TwoWayRouting ==
    [][\A t \in BagToSet(tasks) :
          (t.hist = "clean" /\ ConnectSettles(t) /\ account' # NoAccount) =>
              IF wChain' = HardhatChain
              THEN ~wrongNetwork' /\ contract' # NULL
              ELSE wrongNetwork']_vars

C7_RedeliveryIsSilent ==
    [][(/\ Quiescent
        /\ listening
        /\ \/ \E a \in Accounts \cup {NoAccount} : Redelivered(a) /\ AccountsChanged(a)
           \/ ChainChanged(wChain))
          => UNCHANGED <<account, contract, provider, wrongNetwork, isLoading>>]_vars

(***************************************************************************)
(* C7, amended.  Re-delivery is idempotent in the values of the session,   *)
(* not silent.  An accountsChanged delivered again after its first         *)
(* handling settled undisturbed leaves account, wrongNetwork, contract and *)
(* provider with the same values: at once for an empty list, and through   *)
(* every write of the initializeProvider that is run again for a non-empty *)
(* one.  A chainChanged delivered again reloads the page again: the        *)
(* session is reset and checkMetaMaskConnection derives it anew.           *)
(***************************************************************************)
C7_RedeliveryIdempotent ==
    [][/\ (listening /\ Redelivered(NoAccount) /\ AccountsChanged(NoAccount)) =>
              UNCHANGED <<account, contract, provider, wrongNetwork>>
       /\ \A t \in BagToSet(tasks) :
             (t.redo /\ t.hist = "clean" /\ (GetNetworkOk(t) \/ GetSignerOk(t))) =>
                 UNCHANGED <<account, contract, provider, wrongNetwork>>
       /\ (listening /\ ChainChanged(wChain)) =>
              /\ account' = NoAccount /\ contract' = NULL /\ provider' = NULL
              /\ ~wrongNetwork'
              /\ isLoading'
              /\ tasks' = SetToBag({CheckTask})]_vars

\* initializeProvider runs again for a re-delivered accountsChanged([a]) and
\* has written its account, flag and provider once more.
C7_Witness ==
    \E t \in BagToSet(tasks) :
        /\ t.redo
        /\ t.hist = "clean"
        /\ t.pc = "getSigner"
        /\ ConnectedReady(t.acct)

(***************************************************************************)
(* C8, as claimed.  A chainChanged notification that arrives while a       *)
(* connectWallet() is in flight does not take effect before the connect    *)
(* has settled: the connect stays in flight and the session is not reset.  *)
(***************************************************************************)
C8_ChainChangedDeferred ==
    [][(InConnect /\ listening /\ \E c \in Chains : ChainChanged(c)) =>
          (InConnect' /\ UNCHANGED <<account, contract, provider, wrongNetwork>>)]_vars

(***************************************************************************)
(* C8, amended.  A chainChanged notification that arrives while a          *)
(* connectWallet() is in flight takes effect at once: the page reloads,    *)
(* the connect in flight is abandoned with every other suspended function  *)
(* and never writes to the session, and the session restarts from its      *)
(* initial state with checkMetaMaskConnection as the only function         *)
(* running; nothing the connect had derived is kept.                       *)
(***************************************************************************)
C8_ChainChangedReloads ==
    [][(InConnect /\ listening /\ \E c \in Chains : ChainChanged(c)) =>
          /\ tasks' = SetToBag({CheckTask})
          /\ account' = NoAccount /\ contract' = NULL /\ provider' = NULL
          /\ ~wrongNetwork'
          /\ ~isConnecting'
          /\ isLoading'
          /\ ~listening']_vars

\* A connect is suspended in ensureCorrectNetwork or initializeProvider
\* while the listeners are registered.
C8_Witness ==
    /\ listening
    /\ \E t \in BagToSet(tasks) : t.kind = "connect" /\ t.pc # "eth_requestAccounts"

(***************************************************************************)
(* C9.  A function that was suspended when an accountsChanged notification *)
(* or a disconnectWallet() occurred does not, when it resumes in           *)
(* initializeProvider, write account, wrongNetwork or contract.            *)
(***************************************************************************)
C9_SupersededDiscarded ==
    [][\A t \in BagToSet(tasks) :
          (t.hist = "superseded" /\ (GetNetworkOk(t) \/ GetSignerOk(t))) =>
              UNCHANGED <<account, wrongNetwork, contract>>]_vars


(***************************************************************************)
(* C10, as claimed.  Every transaction that has been reported as completed *)
(* (the success message of the upload with its progress at 100, the        *)
(* success message of a grant or of a revoke) is confirmed.                *)
(***************************************************************************)
C10_ReportedAfterConfirmed ==
    \A i \in reported : txs[i].status = "confirmed"

\* ---------------------------------------------------------------------
\* C11.  When the pinning succeeded and contract.add failed, a retry
\* registers the locator it already has: no pinning request is in flight
\* for a file whose locator was pinned and then refused by the registry.
C11_RetryPinsNothing ==
    \A j \in BagToSet(uploads) :
        j.pc = "pin" => ImgHash(IpfsHash(j.file)) \notin unregistered

\* ---------------------------------------------------------------------
\* What handleFileSelection lets through: an allowed type and at most
\* maxSize bytes.
Acceptable(f) == f.type \in AllowedTypes /\ f.size <= MaxSize

AcceptableFiles == {f \in Files : Acceptable(f)}

\* C12.  A file of a type outside JPEG, PNG, GIF, WebP or of more than
\* 10 MiB is rejected before any network call: it is never the selected
\* file, no handleSubmit holds it, nothing of it is pinned and no add
\* transaction carries its locator.
C12_RejectedBeforeNetwork ==
    /\ upload.file # NULL => Acceptable(upload.file[1])
    /\ \A j \in BagToSet(uploads) : Acceptable(j.file)
    /\ pinned \subseteq {IpfsHash(f) : f \in AcceptableFiles}
    /\ \A i \in 1..Len(txs) :
           txs[i].op = "add" =>
               txs[i].locator \in {ImgHash(IpfsHash(f)) : f \in AcceptableFiles}

\* A file has just been rejected for its size while another was pinned and
\* its add transaction sent.
C12_Witness ==
    /\ upload.error \in {MsgBadType, MsgTooLarge}
    /\ pinned # {}
    /\ \E i \in 1..Len(txs) : txs[i].op = "add"

\* ---------------------------------------------------------------------
\* C13.  During an upload the reported progress never decreases and is
\* below 100: no step taken while the form is uploading lowers
\* uploadProgress or leaves it at 100.
C13_ProgressMonotone ==
    [][upload.uploading /\ upload'.uploading
           => /\ upload'.uploadProgress >= upload.uploadProgress
              /\ upload'.uploadProgress < 100]_vars

\* ---------------------------------------------------------------------
\* C14.  A lookup the registry denies ends with the no-access error; a
\* lookup of a target with no files ends with an empty result and no error
\* set.
C14_DeniedAndEmptyApart ==
    [][\A j \in BagToSet(shares) :
          /\ DisplayDenied(j) => display'.error = MsgNoAccess
          /\ (DisplayReturns(j) /\ value[j.target] = <<>>)
                => display'.data = <<>> /\ display'.error = ""]_vars

\* ---------------------------------------------------------------------
\* C15.  Normalization is total and deterministic: every item of an
\* answer gets a location, and for a content identifier X the items
\* "ipfs://X", "X" and the gateway URL of X all get the location
\* gateway base followed by X.
C15_SameLocation ==
    /\ display.data # <<>> =>
          /\ Len(display.data) = Len(value[display.currentViewingAddress])
          /\ \A k \in 1..Len(display.data) :
                /\ display.data[k].hash = value[display.currentViewingAddress][k]
                /\ StartsWith(display.data[k].url, GatewayBase)
    /\ \A k \in 1..Len(display.data) :
          \A X \in Cids :
             display.data[k].hash \in {X, IpfsScheme \o X, GatewayBase \o X}
                => display.data[k].url = GatewayBase \o X

\* An answer with the three forms of one identifier has been processed.
C15_Witness ==
    /\ Len(display.data) = 3
    /\ \E X \in Cids :
          /\ display.data[1].hash = X
          /\ display.data[2].hash = IpfsScheme \o X
          /\ display.data[3].hash = GatewayBase \o X
          /\ \A k \in 1..3 : display.data[k].url = GatewayBase \o X

\* ---------------------------------------------------------------------
\* The owner granted addr access and then revoked it, both transactions
\* are confirmed, and the revocation is the owner's last word on addr.
GrantedThenRevoked(owner, addr) ==
    \E i, k \in 1..Len(txs) :
        /\ i < k
        /\ txs[i].op = "allow" /\ txs[k].op = "disallow"
        /\ txs[i].target = addr /\ txs[k].target = addr
        /\ txs[i].sender = owner /\ txs[k].sender = owner
        /\ txs[i].status = "confirmed" /\ txs[k].status = "confirmed"
        /\ \A n \in (k + 1)..Len(txs) :
               ~(txs[n].sender = owner /\ txs[n].target = addr)

Entries(list, addr) == {k \in 1..Len(list) : list[k].user = addr}

\* C16.  After grant(addr) and then revoke(addr) are confirmed, the
\* reload of the list that revokeAccess awaits shows exactly one entry
\* for addr, and it is marked revoked.
C16_OneRevokedRecord ==
    [][\A j \in BagToSet(shares) :
          /\ j.kind = "revokeAccess"
          /\ SharedAccessLoaded(j)
          /\ GrantedThenRevoked(Signer(j.contract), j.target)
          => /\ Cardinality(Entries(display'.sharedAccess, j.target)) = 1
             /\ \A k \in Entries(display'.sharedAccess, j.target) :
                    ~display'.sharedAccess[k].access]_vars

\* The list shown after a grant and a revocation of one address.
C16_Witness ==
    /\ shares = EmptyBag
    /\ \E addr \in Accounts :
          /\ GrantedThenRevoked(account, addr)
          /\ Cardinality(Entries(display.sharedAccess, addr)) = 1
          /\ \A k \in Entries(display.sharedAccess, addr) :
                 ~display.sharedAccess[k].access
          /\ display.successMessage = MsgRevoked(addr)

\* ---------------------------------------------------------------------
\* C17.  With a contract at hand, a grant of a string that is no address
\* is rejected with the invalid-address error before anything goes to the
\* registry client: the step calls nothing and sends nothing.
C17_InvalidAddressRejected ==
    [][shareAccess /\ contract # NULL /\ ~IsAddress(display.shareAddress)
          => /\ display'.error = MsgBadAddress
             /\ shares' = shares
             /\ txs' = txs]_vars

\* ---------------------------------------------------------------------
\* The calls a component makes on the contract object, by the place the
\* calling function is suspended at.
RegistryCalls == {"add", "display", "allow", "disallow", "shareAccess"}

\* This step issues a registry call: a function comes to wait for one.
IssuesRegistryCall ==
    \/ \E j \in BagToSet(shares') :
          j.pc \in RegistryCalls /\ CopiesIn(j, shares') > CopiesIn(j, shares)
    \/ \E j \in BagToSet(uploads') :
          j.pc \in RegistryCalls /\ CopiesIn(j, uploads') > CopiesIn(j, uploads)

\* C18.  No registry call is issued while the wallet's current chain
\* differs from the expected chain.
C18_CallsOnExpectedChain ==
    [][IssuesRegistryCall => wChain = HardhatChain]_vars

\* ---------------------------------------------------------------------
\* C19.  Once a chainChanged notification has been handled, nothing
\* derived before it is left: account, provider and contract are empty,
\* no flag or message is kept, every suspended function of the page is
\* gone, and the one function running is checkMetaMaskConnection at its
\* eth_accounts request, which derives the session anew.
C19_NothingSurvives ==
    [][(listening /\ \E c \in Chains : ChainChanged(c)) =>
          /\ account' = NoAccount /\ provider' = NULL /\ contract' = NULL
          /\ ~wrongNetwork' /\ connectionError' = "" /\ ~isConnecting'
          /\ isLoading' /\ ~listening'
          /\ tasks' = SetToBag({CheckTask})
          /\ uploads' = EmptyBag /\ shares' = EmptyBag
          /\ upload' = FileUploadMounted /\ display' = DisplayMounted]_vars

\* A session with an account, a provider and a contract, a function in
\* flight and the listeners registered: what a handled notification
\* discards.
C19_Witness ==
    /\ listening
    /\ account # NoAccount /\ provider # NULL /\ contract # NULL
    /\ tasks # EmptyBag

\* ---------------------------------------------------------------------
\* The requests to the wallet that are awaiting their answer, by the
\* function that made them.
PendingRequests(b) ==
    {[kind |-> t.kind, pc |-> t.pc, reqs |-> t.reqs] : t \in BagToSet(b)}

\* C20.  disconnectWallet() is local: the step sends the wallet nothing and
\* changes nothing of it, and leaves account empty, contract and provider
\* null, wrongNetwork false and connectionError empty.
C20_DisconnectIsLocal ==
    [][DisconnectWallet =>
          /\ PendingRequests(tasks') = PendingRequests(tasks)
          /\ BagCardinality(tasks') = BagCardinality(tasks)
          /\ UNCHANGED walletVars
          /\ Disconnected'
          /\ connectionError' = ""]_vars

\* A connected session that shows an advisory while a function awaits the
\* wallet: disconnectWallet has all of it to clear.
C20_Witness ==
    /\ ~isLoading
    /\ account # NoAccount /\ contract # NULL /\ provider # NULL
    /\ connectionError # ""
    /\ tasks # EmptyBag

\* ---------------------------------------------------------------------
\* C21.  A connectWallet() whose eth_requestAccounts request is refused
\* with 4001 or -32002 sets the advisory of that code, clears
\* isConnecting, leaves account, contract, provider, wrongNetwork and the
\* wallet as they were, and leaves no connect in flight, so that the
\* guard of connectWallet is open again.
C21_RefusalRecovered ==
    [][\A t \in BagToSet(tasks), code \in {UserRejectedCode, ProviderBusyCode} :
          RequestAccountsFail(t, code) =>
             /\ connectionError' = (IF code = UserRejectedCode THEN MsgRejected
                                    ELSE MsgBusy)
             /\ ~isConnecting' /\ ~InConnect'
             /\ UNCHANGED <<account, contract, provider, wrongNetwork>>
             /\ UNCHANGED walletVars]_vars

\* After a refusal, a later connectWallet() has been authorized, has
\* passed ensureCorrectNetwork and is completing initializeProvider on the
\* expected network with its account set.
C21_Witness ==
    /\ isConnecting
    /\ ~wrongNetwork
    /\ connectionError = ""
    /\ \E t \in BagToSet(tasks) :
          t.kind = "connect" /\ t.pc = "getSigner" /\ account = t.acct

\* ---------------------------------------------------------------------
\* C22.  connectWallet() without a wallet provider sets the
\* not-installed advisory, sends no request, leaves isConnecting false and
\* leaves account, contract, provider and wrongNetwork as they were.
C22_ProviderAbsent ==
    [][ConnectWallet /\ ~ethereum =>
          /\ connectionError' = MsgNotInstalled
          /\ tasks' = tasks /\ tasks' = EmptyBag
          /\ ~isConnecting /\ ~isConnecting'
          /\ UNCHANGED <<account, contract, provider, wrongNetwork>>]_vars

\* The advisory shown after a connectWallet() without a provider.
C22_Witness ==
    /\ ~ethereum
    /\ connectionError = MsgNotInstalled
    /\ ~isConnecting
    /\ Disconnected

\* ---------------------------------------------------------------------
\* C23.  Once an upload has succeeded and set its reset timer, the
\* progress, the success message, the selected file and the file name
\* come back to their initial values, whatever else happens meanwhile.
C23_EventuallyReset ==
    (timers.reset > 0)
        ~> (/\ upload.uploadProgress = FileUploadMounted.uploadProgress
            /\ upload.success = FileUploadMounted.success
            /\ upload.file = FileUploadMounted.file
            /\ upload.fileName = FileUploadMounted.fileName)

\* The reset timer of a successful upload is pending while the user has
\* already selected another file.
C23_Witness ==
    /\ timers.reset > 0
    /\ upload.success = MsgUploaded
    /\ upload.uploadProgress = 100
    /\ upload.file # NULL
    /\ \E i \in 1..Len(txs) :
          txs[i].op = "add" /\ txs[i].locator # ImgHash(IpfsHash(upload.file[1]))

AtAddChain(t) == t.pc = "wallet_addEthereumChain"
AwaitsNetworkRequest(t) ==
    t.pc \in {"wallet_switchEthereumChain", "wallet_addEthereumChain"}

(***************************************************************************)
(* C24.  A wallet_addEthereumChain request comes to be outstanding only    *)
(* in a step in which the wallet_switchEthereumChain request of the same   *)
(* invocation fails with the unknown-network code 4902; and an invocation  *)
(* whose eth_chainId request is answered with the expected chain returns   *)
(* without having issued a switch or an add request.                       *)
(***************************************************************************)
C24_AddOnlyAfterUnknown ==
    [][/\ CountTasks(AtAddChain)' > CountTasks(AtAddChain) =>
             \E t \in BagToSet(tasks) :
                 /\ t.reqs = <<"wallet_switchEthereumChain">>
                 /\ SwitchFail(t, UnknownChainCode)
                 /\ CountTasks(AtAddChain)' = CountTasks(AtAddChain) + 1
       /\ \A t \in BagToSet(tasks) :
             (ChainIdOk(t) /\ wChain = HardhatChain) =>
                 /\ t.reqs = <<>>
                 /\ CountTasks(AwaitsNetworkRequest)' =
                       CountTasks(AwaitsNetworkRequest)
                 /\ EnsureReturn(t)]_vars

\* An invocation awaits the add request: its switch request was answered
\* with the unknown-network code by a wallet that is on another chain.
C24_Witness ==
    \E t \in BagToSet(tasks) :
        /\ AtAddChain(t) /\ t.reqs = SwitchAdd
        /\ ~wKnown /\ wChain # HardhatChain

CountUploads(P(_)) ==
    BagCardinality([j \in {u \in BagToSet(uploads) : P(u)} |-> uploads[j]])
AtPin(j) == j.pc = "pin"
AtRegistryAdd(j) == j.pc = "add"

(***************************************************************************)
(* C25.  The stages of one handleSubmit follow each other once: a pinning  *)
(* request comes to be outstanding only by a new handleSubmit, a           *)
(* contract.add call only by the answer of the pinning request of the same *)
(* invocation, with the locator built from the content address of that     *)
(* answer; a registry transaction is the one of an outstanding             *)
(* contract.add call and ends its invocation; nothing is ever un-pinned;   *)
(* and a refused contract.add ends the invocation with the failure shown,  *)
(* without a further request.                                              *)
(***************************************************************************)
C25_StagesOnce ==
    [][/\ pinned \subseteq pinned'
       /\ CountUploads(AtPin)' > CountUploads(AtPin) =>
             /\ handleSubmit
             /\ CountUploads(AtPin)' = CountUploads(AtPin) + 1
       /\ CountUploads(AtRegistryAdd)' > CountUploads(AtRegistryAdd) =>
             \E j \in BagToSet(uploads) :
                 /\ AtPin(j)
                 /\ pinned' = pinned \cup {IpfsHash(j.file)}
                 /\ uploads' = Add(Remove(uploads, j),
                                   [j EXCEPT !.pc = "add", !.ticking = FALSE,
                                             !.locator = GatewayBase \o IpfsHash(j.file)])
       /\ Len(txs') > Len(txs) =>
             \E j \in BagToSet(uploads) :
                 /\ AtRegistryAdd(j)
                 /\ uploads' = Remove(uploads, j)
                 /\ txs' = Append(txs, Tx("add", Signer(j.contract), j.account,
                                          GatewayBase \o IpfsHash(j.file)))
       /\ \A j \in BagToSet(uploads) :
             ContractAddFail(j) =>
                 /\ uploads' = Remove(uploads, j)
                 /\ upload'.error = MsgUploadFailed
                 /\ ~upload'.uploading
                 /\ upload'.uploadProgress = 0
                 /\ pinned' = pinned /\ txs' = txs]_vars

\* A contract.add was refused after the pinning service had stored the
\* file: the invocation is over and the failure is shown.
C25_Witness ==
    /\ unregistered # {}
    /\ \A l \in unregistered : \E cid \in pinned : l = GatewayBase \o cid
    /\ uploads = EmptyBag
    /\ upload.error = MsgUploadFailed
    /\ ~upload.uploading
    /\ txs = <<>>

(***************************************************************************)
(* C26.  Whenever the session holds a contract, the signer the contract    *)
(* was constructed with is the account the session shows.                  *)
(***************************************************************************)
C26_ContractOfAccount ==
    contract # NULL => Signer(contract) = account

(***************************************************************************)
(* C27.  While wrongNetwork is true the session holds no call context:     *)
(* neither a contract nor a provider.                                      *)
(***************************************************************************)
C27_WrongNetworkHoldsNothing ==
    wrongNetwork => (contract = NULL /\ provider = NULL)

(***************************************************************************)
(* C28.  Every handleSubmit whose pinning request is outstanding holds a   *)
(* contract and an account.                                                *)
(***************************************************************************)
C28_PinsOnlyWithContract ==
    \A j \in BagToSet(uploads) :
        AtPin(j) => (j.contract # NULL /\ j.account # NoAccount)

\* What Display shows once a lookup of target r has settled: the files of r
\* under r's address, or the empty list of a lookup that failed.  The
\* message of a failed lookup is not cleared by another one's answer.
ShowsLookupOf(r) ==
    \/ /\ IsAddress(r)
       /\ display.currentViewingAddress = r
       /\ display.data = processedImages(value[r])
       /\ display.error = MsgNoFiles => value[r] = <<>>
    \/ /\ display.data = <<>>
       /\ display.error # MsgNoFiles

(***************************************************************************)
(* C29.  Once no lookup is in flight, the file list, the error message     *)
(* and currentViewingAddress are those of a lookup of the most recently    *)
(* requested target.                                                       *)
(***************************************************************************)
C29_LatestLookupShown ==
    (Lookups = 0 /\ requested # "") => ShowsLookupOf(requested)

=============================================================================
